---- MODULE Spec2Model ----
(***************************************************************************)
(* Model of src/tarea.py: a Streamlit page that polls a MikroTik router's  *)
(* log, classifies PPPoE disconnections (five free-text patterns) and      *)
(* <pppoe-NAME> connection events, appends the disconnections to a CSV     *)
(* file and keeps a session-wide set of recently disconnected clients.     *)
(*                                                                         *)
(* A Python str is a sequence of one-character strings, a dict is a        *)
(* function whose DOMAIN is the set of its keys, a list is a sequence.     *)
(* Accented letters of the source's literals are written unaccented.       *)
(***************************************************************************)
EXTENDS Integers, Sequences, FiniteSets, TLC

VARIABLES
    authenticated,            \* st.session_state.authenticated
    has_previous,             \* "previous_disconnections" in st.session_state
    previous_disconnections,  \* st.session_state.previous_disconnections
    log_file,                 \* the CSV file named by st.session_state.log_file
    router_log,               \* the router's /log, oldest entry first
    pc,                       \* position of the current script run in main()
    button,                   \* the one st.button that is True in this run
    logs,                     \* last list returned by get_mikrotik_logs
    disconnections,           \* last first result of find_recent_disconnections
    connection_events,        \* last second result of find_recent_disconnections
    reconnected_clients,      \* clients named by the last st.success of the check
    active_clients,           \* keys of the last dict of get_active_pppoe_users
    link,                     \* how the last connection to the router went
    raised,                   \* an exception left find_recent_disconnections
    reported_since,           \* clients reported since their last disconnection
    input_user,               \* st.text_input("Usuario", key="user")
    input_pass,               \* st.text_input("Contrasena", key="pass")
    earlier                   \* the classification call before the last one

vars == <<authenticated, has_previous, previous_disconnections, log_file,
          router_log, pc, button, logs, disconnections, connection_events,
          reconnected_clients, active_clients, link, raised, reported_since,
          input_user, input_pass, earlier>>

\* st.session_state, the file and the router; the locals of one run of main()
session_vars == <<authenticated, has_previous, previous_disconnections>>
run_vars == <<button, reconnected_clients, active_clients, link, raised>>

\* the login form's widgets
form_vars == <<input_user, input_pass>>

-----------------------------------------------------------------------------
(* String literals of the source.                                          *)

S_tag_open == <<"<","p","p","p","o","e","-">>
S_gt == <<">">>
S_terminating == <<"t","e","r","m","i","n","a","t","i","n","g">>
S_disconnected == <<"d","i","s","c","o","n","n","e","c","t","e","d">>
S_connected == <<"c","o","n","n","e","c","t","e","d">>
S_pppoe == <<"p","p","p","o","e">>
S_ppp == <<"p","p","p">>
S_closed == <<"c","l","o","s","e","d">>
S_terminating_dots == <<"t","e","r","m","i","n","a","t","i","n","g",".",".",".">>
S_pat1_pre == <<"p","p","p","o","e"," ">>
S_pat1_suf == <<" ","d","i","s","c","o","n","n","e","c","t","e","d">>
S_pat2_pre == <<"P","P","P","o","E"," ","c","o","n","n","e","c","t","i","o","n"," ","c","l","o","s","e","d"," ","f","o","r"," ","u","s","e","r"," ">>
S_pat3_pre == <<"u","s","e","r"," ">>
S_pat3_suf == <<" ","d","i","s","c","o","n","n","e","c","t","e","d">>
S_pat4_pre == <<"r","e","m","o","v","e","d"," ","p","p","p","o","e"," ","c","l","i","e","n","t"," ">>
S_pat5_pre == <<"P","P","P"," ","u","s","e","r"," ">>
S_pat5_suf == <<" ","c","l","o","s","e","d">>
S_NA == <<"N","/","A">>
S_Timestamp == <<"T","i","m","e","s","t","a","m","p">>
S_Cliente == <<"C","l","i","e","n","t","e">>
S_IP == <<"I","P">>
S_Mensaje == <<"M","e","n","s","a","j","e">>
S_rapid_message == <<"R","e","c","o","n","e","x","i","o","n"," ","d","e","t","e","c","t","a","d","a"," ","d","e","s","p","u","e","s"," ","d","e"," ","u","n","a"," ","d","e","s","c","o","n","e","x","i","o","n">>
DESCONEXION == <<"D","E","S","C","O","N","E","X","I","O","N">>
CONEXION == <<"C","O","N","E","X","I","O","N">>
RECONEXION_RAPIDA == <<"R","E","C","O","N","E","X","I","O","N"," ","R","A","P","I","D","A">>

-----------------------------------------------------------------------------
(* Python's str and re operations, as the source uses them.                *)

UPPERCASE == <<"A","B","C","D","E","F","G","H","I","J","K","L","M","N","O","P","Q","R","S","T","U","V","W","X","Y","Z">>
LOWERCASE == <<"a","b","c","d","e","f","g","h","i","j","k","l","m","n","o","p","q","r","s","t","u","v","w","x","y","z">>
DIGITS == {"0","1","2","3","4","5","6","7","8","9"}

SetMin(S) == CHOOSE x \in S : \A y \in S : x <= y
SetMax(S) == CHOOSE x \in S : \A y \in S : x >= y

LowerChar(c) ==
    IF \E i \in 1..Len(UPPERCASE) : UPPERCASE[i] = c
    THEN LOWERCASE[CHOOSE i \in 1..Len(UPPERCASE) : UPPERCASE[i] = c]
    ELSE c

\* s.lower()
str_lower(s) == [i \in 1..Len(s) |-> LowerChar(s[i])]

\* w occurs in s at index i (1-based)
StartsAt(s, w, i) ==
    /\ i >= 1
    /\ i + Len(w) - 1 <= Len(s)
    /\ \A k \in 1..Len(w) : s[i + k - 1] = w[k]

\* w in s
str_in(w, s) == \E i \in 1..(Len(s) + 1) : StartsAt(s, w, i)

\* s.strip(); the only whitespace of the modelled alphabet is the space
StripTo(s, solid) ==
    IF solid = {} THEN <<>> ELSE SubSeq(s, SetMin(solid), SetMax(solid))
str_strip(s) == StripTo(s, {i \in 1..Len(s) : s[i] # " "})

NoMatch == [matched |-> FALSE, group1 |-> <<>>]

\* re.search(pre + "(.*)" + suf, s, flags) or, with greedy FALSE,
\* re.search(pre + "(.*?)" + suf, s, flags): the leftmost start, then the
\* longest (shortest) capture. No modelled character is a line break, so
\* "." matches every character.
\* t is the text the pattern is compared with: s, or s.lower() under
\* re.IGNORECASE
CaptureEnds(t, p, q, i) == {j \in (i + Len(p))..(Len(t) + 1) : StartsAt(t, q, j)}
MatchStarts(t, p, q) ==
    {i \in 1..(Len(t) + 1) : StartsAt(t, p, i) /\ CaptureEnds(t, p, q, i) # {}}
CaptureFrom(s, p, i, ends, greedy) ==
    SubSeq(s, i + Len(p), (IF greedy THEN SetMax(ends) ELSE SetMin(ends)) - 1)
MatchAt(s, t, p, q, starts, greedy) ==
    IF starts = {} THEN NoMatch
    ELSE [matched |-> TRUE,
          group1 |-> CaptureFrom(s, p, SetMin(starts),
                                 CaptureEnds(t, p, q, SetMin(starts)), greedy)]
MatchIn(s, t, p, q, greedy) == MatchAt(s, t, p, q, MatchStarts(t, p, q), greedy)
re_search(pre, suf, s, greedy, ignorecase) ==
    IF ignorecase
    THEN MatchIn(s, str_lower(s), str_lower(pre), str_lower(suf), greedy)
    ELSE MatchIn(s, s, pre, suf, greedy)

\* the number of digits of s from index i on
DigitRun(s, i) ==
    SetMin({k \in i..(Len(s) + 1) : k = Len(s) + 1 \/ s[k] \notin DIGITS}) - i

\* the index after an octet followed by a dot starting at i, or 0
OctetDotRun(s, i, r) ==
    IF r >= 1 /\ r <= 3 /\ i + r <= Len(s) /\ s[i + r] = "." THEN i + r + 1 ELSE 0
OctetDot(s, i) ==
    IF i = 0 \/ i > Len(s) THEN 0 ELSE OctetDotRun(s, i, DigitRun(s, i))

\* the index after a match of \d{1,3}\.\d{1,3}\.\d{1,3}\.\d{1,3} starting
\* at i, or 0; the last octet takes up to three digits
LastOctetRun(p4, r) == IF r = 0 THEN 0 ELSE p4 + (IF r > 3 THEN 3 ELSE r)
LastOctet(s, p4) ==
    IF p4 = 0 \/ p4 > Len(s) THEN 0 ELSE LastOctetRun(p4, DigitRun(s, p4))
IpEndAt(s, i) == LastOctet(s, OctetDot(s, OctetDot(s, OctetDot(s, i))))

\* re.search(r'(\d{1,3}\.\d{1,3}\.\d{1,3}\.\d{1,3})', s)
IpMatchFrom(s, i) == [matched |-> TRUE, group1 |-> SubSeq(s, i, IpEndAt(s, i) - 1)]
IpMatchAt(s, starts) == IF starts = {} THEN NoMatch ELSE IpMatchFrom(s, SetMin(starts))
re_search_ip(s) == IpMatchAt(s, {i \in 1..Len(s) : IpEndAt(s, i) # 0})

\* log.get(key, default)
dict_get(log, key, default) == IF key \in DOMAIN log THEN log[key] ELSE default

-----------------------------------------------------------------------------
(* filter_pppoe_disconnections: the five free-text patterns.               *)

pppoe_patterns ==
    << [pre |-> S_pat1_pre, suf |-> S_pat1_suf],
       [pre |-> S_pat2_pre, suf |-> <<>>],
       [pre |-> S_pat3_pre, suf |-> S_pat3_suf],
       [pre |-> S_pat4_pre, suf |-> <<>>],
       [pre |-> S_pat5_pre, suf |-> S_pat5_suf] >>

relevant_terms == {S_pppoe, S_ppp, S_disconnected, S_closed, S_terminating_dots}

\* lines 102-109
is_pppoe_log(log_topics, log_message) ==
    \/ str_in(S_pppoe, log_topics)
    \/ str_in(S_ppp, log_topics)
    \/ \E term \in relevant_terms : str_in(term, str_lower(log_message))

\* re.search(pattern, log_message, re.IGNORECASE) for pattern number k
pattern_match(k, log_message) ==
    re_search(pppoe_patterns[k].pre, pppoe_patterns[k].suf, log_message, TRUE, TRUE)

\* line 122
ip_or_na(ip_match) == IF ip_match.matched THEN ip_match.group1 ELSE S_NA

\* lines 118-130: the record appended for a match
disconnection_record(match, log_time, log_message, log_topics) ==
    [nombre |-> str_strip(match.group1),
     ip |-> ip_or_na(re_search_ip(log_message)),
     tiempo_desconexion |-> log_time,
     mensaje |-> log_message,
     topics |-> log_topics]

\* the records a pattern loop without its break would append: one per
\* matching pattern
every_hit(hits, log_time, log_message, log_topics) ==
    [n \in 1..Cardinality(hits) |->
        disconnection_record(
            pattern_match(CHOOSE k \in hits : Cardinality({h \in hits : h < k}) = n - 1,
                          log_message),
            log_time, log_message, log_topics)]
pattern_loop_no_break(log_time, log_message, log_topics) ==
    every_hit({k \in 1..Len(pppoe_patterns) : pattern_match(k, log_message).matched},
              log_time, log_message, log_topics)

\* a pattern loop that keeps the record of the last matching pattern
last_hit(hits, log_time, log_message, log_topics) ==
    IF hits = {} THEN <<>>
    ELSE << disconnection_record(pattern_match(SetMax(hits), log_message),
                                 log_time, log_message, log_topics) >>

\* lines 115-131: the pattern loop; it stops at the first matching pattern
first_hit(hits, log_time, log_message, log_topics) ==
    IF hits = {} THEN <<>>
    ELSE << disconnection_record(pattern_match(SetMin(hits), log_message),
                                 log_time, log_message, log_topics) >>
pattern_loop(log_time, log_message, log_topics) ==
    first_hit({k \in 1..Len(pppoe_patterns) : pattern_match(k, log_message).matched},
              log_time, log_message, log_topics)

\* lines 93-131: what one iteration of the loop appends to disconnections
filter_fields(log_time, log_message, log_topics) ==
    IF ~is_pppoe_log(log_topics, log_message) THEN <<>>
    ELSE pattern_loop(log_time, log_message, log_topics)
filter_entry(log) ==
    IF "time" \notin DOMAIN log \/ "message" \notin DOMAIN log THEN <<>>
    ELSE filter_fields(dict_get(log, "time", <<>>), dict_get(log, "message", <<>>),
                       dict_get(log, "topics", <<>>))

-----------------------------------------------------------------------------
(* extract_pppoe_connection_events: the <pppoe-NAME> events.               *)

\* lines 231-234 with the two tests in the other order
event_type_of_connect_first(message) ==
    IF str_in(S_connected, message) THEN CONEXION
    ELSE IF str_in(S_terminating, message) \/ str_in(S_disconnected, message)
         THEN DESCONEXION
    ELSE <<>>

\* lines 231-234; <<>> stands for None
event_type_of(message) ==
    IF str_in(S_terminating, message) \/ str_in(S_disconnected, message)
    THEN DESCONEXION
    ELSE IF str_in(S_connected, message) THEN CONEXION ELSE <<>>

\* lines 214-243: the event one iteration appends first, if any
tag_typed(message, log_time, username, event_type) ==
    IF event_type = <<>> THEN <<>>
    ELSE << [Hora |-> log_time, Cliente |-> username,
             Evento |-> event_type, Mensaje |-> message] >>
tag_matched(message, log_time, username_match) ==
    IF ~str_in(S_tag_open, message) THEN <<>>
    ELSE IF ~username_match.matched THEN <<>>
    ELSE tag_typed(message, log_time, username_match.group1, event_type_of(message))
\* lines 217-243 without the test of lines 214-215
tag_event_unchecked(log) ==
    tag_matched(dict_get(log, "message", <<>>), dict_get(log, "time", <<>>),
                re_search(S_tag_open, S_gt, dict_get(log, "message", <<>>),
                          FALSE, FALSE))

tag_event(log) ==
    IF "message" \notin DOMAIN log \/ "time" \notin DOMAIN log THEN <<>>
    ELSE tag_matched(dict_get(log, "message", <<>>), dict_get(log, "time", <<>>),
                     re_search(S_tag_open, S_gt, dict_get(log, "message", <<>>),
                               FALSE, FALSE))

\* lines 250-251 with a test of the time the DESCONEXION was logged at
is_rapid_reconnect_timed(event_type, status) ==
    event_type = CONEXION /\ status.last_event = DESCONEXION
    /\ status.last_time = <<"0","8",":","0","1">>

\* lines 250-251: the test made for a client already in client_status
is_rapid_reconnect_any_connect(event_type, status) == event_type = CONEXION

is_rapid_reconnect(event_type, status) ==
    event_type = CONEXION /\ status.last_event = DESCONEXION

\* lines 253-258: the synthetic event
rapid_event_original_text(log_time, username, message) ==
    [Hora |-> log_time, Cliente |-> username,
     Evento |-> RECONEXION_RAPIDA, Mensaje |-> message]

rapid_event(log_time, username, message) ==
    [Hora |-> log_time, Cliente |-> username,
     Evento |-> RECONEXION_RAPIDA, Mensaje |-> S_rapid_message]

\* lines 246-258 with one status for all clients: the test is made on the
\* status of whichever client is tracked
rapid_events_any_client(client_status, ev) ==
    IF \E u \in DOMAIN client_status : is_rapid_reconnect(ev.Evento, client_status[u])
    THEN << rapid_event(ev.Hora, ev.Cliente, ev.Mensaje) >>
    ELSE <<>>

\* lines 246-260: the events appended after the entry's own event
rapid_events(client_status, ev) ==
    IF ev.Cliente \in DOMAIN client_status
       /\ is_rapid_reconnect(ev.Evento, client_status[ev.Cliente])
    THEN << rapid_event(ev.Hora, ev.Cliente, ev.Mensaje) >>
    ELSE <<>>

\* lines 238-243 with a slip: the entry's own event is withheld when the
\* synthetic event is emitted
emitted_events_withheld(client_status, ev) ==
    IF rapid_events(client_status, ev) # <<>>
    THEN rapid_events(client_status, ev)
    ELSE <<ev>>

\* lines 238-258: everything one classified entry appends
emitted_events(client_status, ev) == <<ev>> \o rapid_events(client_status, ev)

\* lines 246-260: client_status after the entry
updated_status(client_status, ev) ==
    [u \in DOMAIN client_status \cup {ev.Cliente} |->
        IF u = ev.Cliente
        THEN [last_event |-> ev.Evento, last_time |-> ev.Hora]
        ELSE client_status[u]]

-----------------------------------------------------------------------------
(* The log entries of the model.                                           *)

TOPICS_pppoe == <<"p","p","p","o","e",",","i","n","f","o">>
TOPICS_system == <<"s","y","s","t","e","m",",","i","n","f","o">>
TIME_1 == <<"0","8",":","0","1">>
TIME_2 == <<"0","8",":","0","2">>
NAME_a == <<"a">>
NAME_b == <<"b">>

M_term_a == <<"<","p","p","p","o","e","-","a",">",":"," ","t","e","r","m","i","n","a","t","i","n","g",".",".",".">>
M_conn_a == <<"<","p","p","p","o","e","-","a",">",":"," ","c","o","n","n","e","c","t","e","d">>
M_disc_a == <<"<","p","p","p","o","e","-","a",">",":"," ","d","i","s","c","o","n","n","e","c","t","e","d">>
M_term_b == <<"<","p","p","p","o","e","-","b",">",":"," ","t","e","r","m","i","n","a","t","i","n","g",".",".",".">>
M_conn_b == <<"<","p","p","p","o","e","-","b",">",":"," ","c","o","n","n","e","c","t","e","d">>
M_auth_a == <<"<","p","p","p","o","e","-","a",">",":"," ","a","u","t","h","e","n","t","i","c","a","t","e","d">>
M_open_a == <<"<","p","p","p","o","e","-","a"," ","c","o","n","n","e","c","t","e","d">>
M_user_a_ip == <<"u","s","e","r"," ","a"," ","d","i","s","c","o","n","n","e","c","t","e","d"," ","f","r","o","m"," ","1","0",".","0",".","0",".","5">>
M_pppoe_b == <<"p","p","p","o","e"," ","b"," ","d","i","s","c","o","n","n","e","c","t","e","d">>
M_both_a == <<"P","P","P","o","E"," ","u","s","e","r"," ","a"," ","d","i","s","c","o","n","n","e","c","t","e","d">>
M_closed_b == <<"P","P","P","o","E"," ","c","o","n","n","e","c","t","i","o","n"," ","c","l","o","s","e","d"," ","f","o","r"," ","u","s","e","r"," ","b"," ">>
M_removed_b == <<"r","e","m","o","v","e","d"," ","p","p","p","o","e"," ","c","l","i","e","n","t"," ","b">>
M_pppuser_a == <<"P","P","P"," ","u","s","e","r"," ","a"," ","c","l","o","s","e","d">>
M_tag_user_a == <<"<","p","p","p","o","e","-","a",">",":"," ","u","s","e","r"," ","a"," ","d","i","s","c","o","n","n","e","c","t","e","d">>
M_reboot == <<"s","y","s","t","e","m"," ","r","e","b","o","o","t","e","d">>
M_link == <<"e","t","h","e","r","1"," ","l","i","n","k"," ","c","l","o","s","e","d">>

E_term_a == [time |-> TIME_1, message |-> M_term_a, topics |-> TOPICS_pppoe]
E_conn_a == [time |-> TIME_2, message |-> M_conn_a, topics |-> TOPICS_pppoe]
E_disc_a == [time |-> TIME_1, message |-> M_disc_a, topics |-> TOPICS_pppoe]
E_term_b == [time |-> TIME_2, message |-> M_term_b, topics |-> TOPICS_pppoe]
E_conn_b == [time |-> TIME_1, message |-> M_conn_b, topics |-> TOPICS_pppoe]
E_auth_a == [time |-> TIME_1, message |-> M_auth_a, topics |-> TOPICS_pppoe]
E_open_a == [time |-> TIME_1, message |-> M_open_a, topics |-> TOPICS_pppoe]
E_user_a_ip == [time |-> TIME_2, message |-> M_user_a_ip]
E_pppoe_b == [time |-> TIME_1, message |-> M_pppoe_b, topics |-> TOPICS_pppoe]
E_both_a == [time |-> TIME_1, message |-> M_both_a]
E_closed_b == [time |-> TIME_1, message |-> M_closed_b, topics |-> TOPICS_system]
E_removed_b == [time |-> TIME_2, message |-> M_removed_b, topics |-> TOPICS_system]
E_pppuser_a == [time |-> TIME_2, message |-> M_pppuser_a, topics |-> TOPICS_system]
E_tag_user_a == [time |-> TIME_1, message |-> M_tag_user_a, topics |-> TOPICS_pppoe]
E_reboot == [time |-> TIME_1, message |-> M_reboot, topics |-> TOPICS_system]
E_link == [time |-> TIME_1, message |-> M_link, topics |-> TOPICS_system]
E_no_time == [message |-> M_conn_a, topics |-> TOPICS_pppoe]
E_no_message == [time |-> TIME_1, topics |-> TOPICS_pppoe]

\* the entries a classification pass is tried on
ClassifyEntries ==
    {E_term_a, E_conn_a, E_disc_a, E_term_b, E_conn_b, E_auth_a, E_open_a,
     E_user_a_ip, E_both_a, E_closed_b, E_tag_user_a, E_link, E_no_time,
     E_no_message}

\* the entries the router writes to its log while the page is used
RouterEntries == {E_user_a_ip, E_pppoe_b, E_term_a, E_conn_a}

\* an entry with another time field
Retimed(log, t) == IF "time" \in DOMAIN log THEN [log EXCEPT !.time = t] ELSE log
RetimedEntries == {Retimed(e, t) : e \in ClassifyEntries, t \in {TIME_1, TIME_2}}

AllEntries ==
    ClassifyEntries \cup RouterEntries \cup {E_removed_b, E_pppuser_a, E_reboot}
    \cup RetimedEntries

\* filter_entry and tag_event of the model's entries, computed once
filter_table == [log \in AllEntries |-> filter_entry(log)]
tag_table == [log \in AllEntries |-> tag_event(log)]

\* the tables' values, or the computation for an entry outside them
records_of(log) == IF log \in AllEntries THEN filter_table[log] ELSE filter_entry(log)
event_of(log) == IF log \in AllEntries THEN tag_table[log] ELSE tag_event(log)

Front(s) == SubSeq(s, 1, Len(s) - 1)
Last(s) == s[Len(s)]

\* lines 81-133
RECURSIVE filter_pppoe_disconnections(_)
filter_pppoe_disconnections(entries) ==
    IF entries = <<>> THEN <<>>
    ELSE filter_pppoe_disconnections(Front(entries))
         \o records_of(Last(entries))

\* lines 236-260: one iteration; ev is the entry's event, if any
extract_step(before, ev) ==
    IF ev = <<>> THEN before
    ELSE [connection_events |->
              before.connection_events \o emitted_events(before.client_status, ev[1]),
          client_status |-> updated_status(before.client_status, ev[1])]

\* the last CONEXION/DESCONEXION event of each client in a list of events:
\* client_status as the call that returned the list left it
StatusClients(events) ==
    {events[i].Cliente : i \in {j \in 1..Len(events) : events[j].Evento # RECONEXION_RAPIDA}}
LastOwnEvent(events, u) ==
    events[SetMax({i \in 1..Len(events) :
                      events[i].Cliente = u /\ events[i].Evento # RECONEXION_RAPIDA})]
status_left_by(events) ==
    [u \in StatusClients(events) |->
        [last_event |-> LastOwnEvent(events, u).Evento,
         last_time |-> LastOwnEvent(events, u).Hora]]

\* a client_status that outlives the call: a module-level dict
client_status_kept(left_events) == status_left_by(left_events)

\* line 211: client_status is a local, created empty by every call whatever
\* the call before returned
client_status_new(left_events) == <<>>

\* lines 208-260: connection_events and client_status after the loop has
\* gone through entries; connection_events is what the call before returned
RECURSIVE extract_loop(_)
extract_loop(entries) ==
    IF entries = <<>>
    THEN [connection_events |-> <<>>,
          client_status |-> client_status_new(connection_events)]
    ELSE extract_step(extract_loop(Front(entries)), event_of(Last(entries)))

\* lines 207-262
extract_pppoe_connection_events(entries) == extract_loop(entries).connection_events

-----------------------------------------------------------------------------
(* One classification pass over a given list of entries: lines 143-146 of  *)
(* find_recent_disconnections, one call per step.                          *)

MaxEntries == 3

BoundedSeq(S, n) == UNION {[1..k -> S] : k \in 0..n}

InputLogs == BoundedSeq(ClassifyEntries, MaxEntries)

\* no call of the classification has been made
NoCall == [logs |-> <<>>, disconnections |-> <<>>, connection_events |-> <<>>]

SessionInit ==
    /\ authenticated = FALSE
    /\ has_previous = FALSE
    /\ previous_disconnections = {}
    /\ log_file = [exists |-> FALSE, rows |-> <<>>]
    /\ router_log = <<>>
    /\ button = "none"
    /\ disconnections = <<>>
    /\ connection_events = <<>>
    /\ reconnected_clients = <<>>
    /\ active_clients = <<>>
    /\ link = "none"
    /\ raised = FALSE
    /\ reported_since = {}
    /\ input_user = <<>>
    /\ input_pass = <<>>
    /\ earlier = NoCall

InitClassify ==
    /\ SessionInit
    /\ logs \in InputLogs
    /\ pc = "classify"

\* line 143
FilterPass ==
    /\ pc = "classify"
    /\ disconnections' = filter_pppoe_disconnections(logs)
    /\ pc' = "filtered"
    /\ UNCHANGED <<session_vars, run_vars, form_vars, log_file, router_log, logs,
                   connection_events, reported_since, earlier>>

\* line 146
ExtractPass ==
    /\ pc = "filtered"
    /\ connection_events' = extract_pppoe_connection_events(logs)
    /\ pc' = "classified"
    /\ UNCHANGED <<session_vars, run_vars, form_vars, log_file, router_log, logs,
                   disconnections, reported_since, earlier>>

\* the lists a second call is made on: the same list again, or a list whose
\* first event of client a is a CONEXION
RerunLogs(first) == {first, <<E_conn_a>>}

\* lines 143-146 once more: a further call of both functions, on the same
\* list or on another
ClassifyAgain ==
    /\ pc = "classified"
    /\ logs' \in RerunLogs(logs)
    /\ earlier' = [logs |-> logs, disconnections |-> disconnections,
                   connection_events |-> connection_events]
    /\ disconnections' = filter_pppoe_disconnections(logs')
    /\ connection_events' = extract_pppoe_connection_events(logs')
    /\ pc' = "classified_again"
    /\ UNCHANGED <<session_vars, run_vars, form_vars, log_file, router_log,
                   reported_since>>

NextClassify == FilterPass \/ ExtractPass \/ ClassifyAgain

SpecClassify == InitClassify /\ [][NextClassify]_vars

-----------------------------------------------------------------------------
(* The page: main() and the functions that reach the router and the file.  *)

MaxLog == 2
MaxRows == 2
MaxActive == 2

\* st.secrets["credentials"]; the values are the deployment's
USERNAME == <<"u">>
PASSWORD == <<"p">>

\* what a user may type into a text_input
TypedTexts == {<<>>, USERNAME, PASSWORD}

\* lines 294-302
time_options ==
    ("15 minutos" :> 15) @@ ("30 minutos" :> 30) @@ ("1 hora" :> 60)
    @@ ("3 horas" :> 180) @@ ("6 horas" :> 360) @@ ("12 horas" :> 720)
    @@ ("1 dia" :> 1440)

\* line 426
POLL_MINUTES == 15

\* how a use of the router goes: the connection is refused, the connection
\* is made and the read raises, or both succeed
Links == {"refused", "read_error", "up"}

Range(s) == {s[i] : i \in 1..Len(s)}
Prefix(s, i) == SubSeq(s, 1, i)

\* lines 23-33: TRUE for an api object, FALSE for None
connect_to_mikrotik(l) == l # "refused"

\* a get_mikrotik_logs that hands back what it read whatever went wrong
get_mikrotik_logs_unguarded(time_minutes, l, rlog) ==
    Prefix(rlog, IF Len(rlog) < time_minutes * 10 THEN Len(rlog) ELSE time_minutes * 10)

\* lines 61-76
get_mikrotik_logs(time_minutes, l, rlog) ==
    IF ~connect_to_mikrotik(l) THEN <<>>
    ELSE IF l = "read_error" THEN <<>>
    ELSE Prefix(rlog, IF Len(rlog) < time_minutes * 10 THEN Len(rlog)
                      ELSE time_minutes * 10)

\* line 165
header_row == <<S_Timestamp, S_Cliente, S_IP, S_Mensaje>>

\* lines 169-174
csv_row(dc) == <<dc.tiempo_desconexion, dc.nombre, dc.ip, dc.mensaje>>
csv_rows(dcs) == [i \in 1..Len(dcs) |-> csv_row(dcs[i])]

\* a save that opens the file with mode 'w'
save_disconnections_to_log_truncating(dcs, file, writable) ==
    IF dcs = <<>> THEN [log_file |-> file, raised |-> FALSE]
    ELSE IF ~writable THEN [log_file |-> file, raised |-> TRUE]
    ELSE [log_file |->
              [exists |-> TRUE,
               rows |-> (IF file.exists THEN <<>> ELSE <<header_row>>) \o csv_rows(dcs)],
          raised |-> FALSE]

\* a save that leaves out the rows the file already holds
save_disconnections_to_log_dedup(dcs, file, writable) ==
    IF dcs = <<>> THEN [log_file |-> file, raised |-> FALSE]
    ELSE IF ~writable THEN [log_file |-> file, raised |-> TRUE]
    ELSE [log_file |->
              [exists |-> TRUE,
               rows |-> (IF file.exists THEN file.rows ELSE <<header_row>>)
                        \o SelectSeq(csv_rows(dcs),
                                     LAMBDA row : row \notin Range(file.rows))],
          raised |-> FALSE]

\* a save that creates the file for an empty list too, with its header row
save_disconnections_to_log_always_opening(dcs, file, writable) ==
    IF ~writable THEN [log_file |-> file, raised |-> TRUE]
    ELSE [log_file |->
              [exists |-> TRUE,
               rows |-> (IF file.exists THEN file.rows ELSE <<header_row>>)
                        \o csv_rows(dcs)],
          raised |-> FALSE]

\* lines 154-174: the file afterwards, and whether open() raised; nothing
\* catches the exception
save_disconnections_to_log(dcs, file, writable) ==
    IF dcs = <<>> THEN [log_file |-> file, raised |-> FALSE]
    ELSE IF ~writable THEN [log_file |-> file, raised |-> TRUE]
    ELSE [log_file |->
              [exists |-> TRUE,
               rows |-> (IF file.exists THEN file.rows ELSE <<header_row>>)
                        \o csv_rows(dcs)],
          raised |-> FALSE]

\* lines 136-151: the two lists returned, the file afterwards, and whether
\* an exception left the call instead of the two lists
\* lines 149-151
saved_and_returned(fetched, dcs, evs, saved) ==
    IF saved.raised
    THEN [logs |-> fetched, disconnections |-> <<>>, connection_events |-> <<>>,
          log_file |-> saved.log_file, raised |-> TRUE]
    ELSE [logs |-> fetched, disconnections |-> dcs, connection_events |-> evs,
          log_file |-> saved.log_file, raised |-> FALSE]
\* lines 143-149
classified(fetched, dcs, file, writable) ==
    saved_and_returned(fetched, dcs, extract_pppoe_connection_events(fetched),
                       save_disconnections_to_log(dcs, file, writable))
\* lines 139-143
fetched_logs(fetched, file, writable) ==
    IF fetched = <<>>
    THEN [logs |-> fetched, disconnections |-> <<>>, connection_events |-> <<>>,
          log_file |-> file, raised |-> FALSE]
    ELSE classified(fetched, filter_pppoe_disconnections(fetched), file, writable)
find_recent_disconnections(time_minutes, l, writable, rlog, file) ==
    fetched_logs(get_mikrotik_logs(time_minutes, l, rlog), file, writable)

S_address == <<"1","0",".","0",".","0",".","5">>

\* the rows /ppp/active may hold
ActiveRows ==
    {[name |-> NAME_a, address |-> S_address],
     [name |-> NAME_b, address |-> S_address],
     [name |-> NAME_b]}

\* lines 47-53: one row of /ppp/active
active_put(keys, client) ==
    IF "name" \in DOMAIN client /\ "address" \in DOMAIN client
       /\ client.name \notin Range(keys)
    THEN Append(keys, client.name)
    ELSE keys

\* lines 44-53: the keys of active_clients, in insertion order
RECURSIVE active_keys(_)
active_keys(rows) ==
    IF rows = <<>> THEN <<>> ELSE active_put(active_keys(Front(rows)), Last(rows))

\* lines 36-58
get_active_pppoe_users(l, rows) ==
    IF ~connect_to_mikrotik(l) THEN <<>>
    ELSE IF l = "read_error" THEN <<>>
    ELSE active_keys(rows)

\* line 408 with the membership test dropped
is_reconnected_always(name, previous) == TRUE

\* line 408
is_reconnected(name, previous) == name \in previous

\* lines 399-409
reconnected_of(active, previous) ==
    LET keep(name) == is_reconnected(name, previous)
    IN  SelectSeq(active, keep)

\* line 420 left out
after_check_kept(previous) == previous

\* line 420
after_check(previous) == {}

\* the clients an entry reports as disconnected, by either convention
RecordNames(records) == {records[i].nombre : i \in 1..Len(records)}
DisconnectNames(events) ==
    {events[i].Cliente : i \in {j \in 1..Len(events) : events[j].Evento = DESCONEXION}}
DisconnectedIn(log) == RecordNames(records_of(log)) \cup DisconnectNames(event_of(log))

Init ==
    /\ SessionInit
    /\ logs = <<>>
    /\ pc = "idle"

\* a script run starts from the top with fresh locals
FreshLocals ==
    /\ logs' = <<>>
    /\ disconnections' = <<>>
    /\ connection_events' = <<>>
    /\ reconnected_clients' = <<>>
    /\ active_clients' = <<>>
    /\ link' = "none"
    /\ raised' = FALSE

\* line 282 with the password left out of the comparison
credentials_match_user_only(user, pass) == user = USERNAME

\* line 282
credentials_match(user, pass) == user = USERNAME /\ pass = PASSWORD

\* lines 276-288: a run of the page while not authenticated
Login ==
    /\ pc = "idle"
    /\ ~authenticated
    /\ \E typed_user \in TypedTexts, typed_pass \in TypedTexts, ingresar \in BOOLEAN :
           /\ input_user' = typed_user
           /\ input_pass' = typed_pass
           /\ IF ingresar /\ credentials_match(typed_user, typed_pass)
              THEN /\ authenticated' = TRUE
                   /\ pc' = "buscar"      \* st.rerun(): the script runs again
              ELSE /\ authenticated' = authenticated
                   /\ pc' = "idle"        \* st.stop()
    /\ button' = "none"
    /\ FreshLocals
    /\ UNCHANGED <<has_previous, previous_disconnections, log_file, router_log,
                   reported_since, earlier>>

\* a run of the page while authenticated, with at most one button pressed
StartRun ==
    /\ pc = "idle"
    /\ authenticated
    /\ button' \in {"none", "buscar", "ver", "limpiar"}
    /\ pc' = "buscar"
    /\ FreshLocals
    /\ UNCHANGED <<session_vars, form_vars, log_file, router_log, reported_since,
                   earlier>>

\* lines 316-382
BuscarStep ==
    /\ pc = "buscar"
    /\ IF button = "buscar"
       THEN \E selected_time \in DOMAIN time_options, l \in Links, writable \in BOOLEAN :
                \E r \in {find_recent_disconnections(time_options[selected_time], l,
                                                     writable, router_log, log_file)} :
                    /\ Len(r.log_file.rows) <= MaxRows + 1
                    /\ logs' = r.logs
                    /\ disconnections' = r.disconnections
                    /\ connection_events' = r.connection_events
                    /\ log_file' = r.log_file
                    /\ link' = l
                    /\ raised' = r.raised
                    /\ pc' = IF r.raised THEN "idle" ELSE "ver"
       ELSE /\ pc' = "ver"
            /\ UNCHANGED <<logs, disconnections, connection_events, log_file, link, raised>>
    /\ UNCHANGED <<session_vars, form_vars, router_log, button, reconnected_clients,
                   active_clients, reported_since, earlier>>

\* lines 387-423
VerStep ==
    /\ pc = "ver"
    /\ has_previous' = TRUE
    /\ \E previous \in {IF has_previous THEN previous_disconnections ELSE {}} :
           IF button = "ver"
           THEN \E l \in Links, rows \in BoundedSeq(ActiveRows, MaxActive) :
                    \E active \in {get_active_pppoe_users(l, rows)} :
                        /\ active_clients' = active
                        /\ link' = l
                        /\ IF active # <<>>
                           THEN /\ reconnected_clients' = reconnected_of(active, previous)
                                /\ previous_disconnections' = after_check(previous)
                           ELSE /\ reconnected_clients' = <<>>
                                /\ previous_disconnections' = previous
           ELSE /\ previous_disconnections' = previous
                /\ UNCHANGED <<active_clients, link, reconnected_clients>>
    /\ reported_since' = reported_since \cup Range(reconnected_clients')
    /\ pc' = "poll"
    /\ UNCHANGED <<authenticated, form_vars, log_file, router_log, button, logs,
                   disconnections, connection_events, raised, earlier>>

\* lines 426-429 with the DESCONEXION events of the second list added too
poll_update_with_events(previous, dcs, events) ==
    previous \cup RecordNames(dcs) \cup DisconnectNames(events)

\* lines 426-429: the second list of the call is bound to _ and not read
poll_update(previous, dcs, events) ==
    IF dcs # <<>> THEN previous \cup RecordNames(dcs) ELSE previous

\* lines 425-429
PollStep ==
    /\ pc = "poll"
    /\ \E l \in Links, writable \in BOOLEAN :
           \E r \in {find_recent_disconnections(POLL_MINUTES, l, writable,
                                                router_log, log_file)} :
               /\ Len(r.log_file.rows) <= MaxRows + 1
               /\ logs' = r.logs
               /\ disconnections' = r.disconnections
               /\ connection_events' = r.connection_events
               /\ log_file' = r.log_file
               /\ link' = l
               /\ raised' = r.raised
               /\ previous_disconnections' =
                      poll_update(previous_disconnections, r.disconnections,
                                  r.connection_events)
               /\ pc' = IF r.raised THEN "idle" ELSE "limpiar"
    /\ UNCHANGED <<authenticated, has_previous, form_vars, router_log, button,
                   reconnected_clients, active_clients, reported_since, earlier>>

\* lines 431-436, and the end of the script
LimpiarStep ==
    /\ pc = "limpiar"
    /\ IF button = "limpiar" /\ log_file.exists
       THEN /\ log_file' = [exists |-> FALSE, rows |-> <<>>]
            /\ pc' = "buscar"          \* st.rerun(): the script runs again
       ELSE /\ log_file' = log_file
            /\ pc' = "idle"
    /\ button' = "none"
    /\ FreshLocals
    /\ UNCHANGED <<session_vars, form_vars, router_log, reported_since, earlier>>

\* the router writes an entry to its log
RouterLogs ==
    /\ Len(router_log) < MaxLog
    /\ \E e \in RouterEntries :
           /\ router_log' = Append(router_log, e)
           /\ reported_since' = reported_since \ DisconnectedIn(e)
    /\ UNCHANGED <<session_vars, run_vars, form_vars, log_file, pc, logs,
                   disconnections, connection_events, earlier>>

Next ==
    \/ Login
    \/ StartRun
    \/ BuscarStep
    \/ VerStep
    \/ PollStep
    \/ LimpiarStep
    \/ RouterLogs

Spec == Init /\ [][Next]_vars

-----------------------------------------------------------------------------
(* Properties of the connection-event list.                                *)

IsRapid(e) == e.Evento = RECONEXION_RAPIDA
NotRapid(e) == e.Evento # RECONEXION_RAPIDA

\* indices before k of the CONNECT/DISCONNECT events of client c
EarlierClassified(out, k, c) ==
    {i \in 1..(k - 1) : out[i].Cliente = c /\ NotRapid(out[i])}

\* the CONNECT/DISCONNECT event of c that precedes index k is a DISCONNECT
PreviousIsDisconnect(out, k, c) ==
    /\ EarlierClassified(out, k, c) # {}
    /\ out[SetMax(EarlierClassified(out, k, c))].Evento = DESCONEXION

\* C1: a RECONEXION RAPIDA event of client c is only ever found right after
\* a CONEXION event of c whose preceding CONEXION/DESCONEXION event of c is a
\* DESCONEXION; so none follows a client's first event of the run.
C1_RapidOnlyAfterDisconnectThenConnect ==
    \A k \in 1..Len(connection_events) :
        IsRapid(connection_events[k]) =>
            /\ k > 1
            /\ connection_events[k - 1].Evento = CONEXION
            /\ connection_events[k - 1].Cliente = connection_events[k].Cliente
            /\ PreviousIsDisconnect(connection_events, k - 1,
                                    connection_events[k].Cliente)

C1_Witness ==
    /\ pc = "classified"
    /\ \E k \in 1..Len(connection_events) : IsRapid(connection_events[k])
    /\ \E k \in 1..Len(connection_events) :
           /\ connection_events[k].Evento = CONEXION
           /\ EarlierClassified(connection_events, k, connection_events[k].Cliente) = {}

\* C2: every CONEXION event of client c whose preceding CONEXION/DESCONEXION
\* event of c is a DESCONEXION is followed, at the very next position, by a
\* RECONEXION RAPIDA event of c with the same Hora and the fixed message.
C2_RapidRightAfterEveryReconnect ==
    \A k \in 1..Len(connection_events) :
        (/\ connection_events[k].Evento = CONEXION
         /\ PreviousIsDisconnect(connection_events, k, connection_events[k].Cliente))
        => /\ k + 1 <= Len(connection_events)
           /\ connection_events[k + 1] =
                  [Hora |-> connection_events[k].Hora,
                   Cliente |-> connection_events[k].Cliente,
                   Evento |-> RECONEXION_RAPIDA,
                   Mensaje |-> S_rapid_message]
           /\ connection_events[k + 1].Mensaje # connection_events[k].Mensaje

\* a reconnection with another client's event between the DESCONEXION and
\* the CONEXION
C2_Witness ==
    /\ pc = "classified"
    /\ \E k \in 3..Len(connection_events) :
           /\ connection_events[k].Evento = CONEXION
           /\ PreviousIsDisconnect(connection_events, k, connection_events[k].Cliente)
           /\ connection_events[k - 1].Cliente # connection_events[k].Cliente

\* what entry number i of logs added to each list
RecordsOfEntry(i) ==
    SubSeq(disconnections,
           Len(filter_pppoe_disconnections(Prefix(logs, i - 1))) + 1,
           Len(filter_pppoe_disconnections(Prefix(logs, i))))
EventsOfEntry(i) ==
    SubSeq(connection_events,
           Len(extract_pppoe_connection_events(Prefix(logs, i - 1))) + 1,
           Len(extract_pppoe_connection_events(Prefix(logs, i))))

\* C9 as claimed: every entry adds at most one DisconnectionRecord and at
\* most one element to the ConnectionEvent list.
C9_AtMostOneElementEach ==
    pc = "classified" =>
        \A i \in 1..Len(logs) :
            Len(RecordsOfEntry(i)) <= 1 /\ Len(EventsOfEntry(i)) <= 1

\* C9 amended: every entry adds at most one DisconnectionRecord and at most
\* one CONEXION/DESCONEXION event; a second element it adds to the event list
\* is the synthetic RECONEXION RAPIDA, so it adds at most two.
C9_AtMostOneRecordAndOneOwnEvent ==
    pc = "classified" =>
        \A i \in 1..Len(logs) :
            /\ Len(RecordsOfEntry(i)) <= 1
            /\ Len(EventsOfEntry(i)) <= 2
            /\ Len(SelectSeq(EventsOfEntry(i), NotRapid)) <= 1
            /\ Len(EventsOfEntry(i)) = 2 => IsRapid(EventsOfEntry(i)[2])

\* an entry that two patterns match, and an entry that added two events
C9_Witness ==
    /\ pc = "classified"
    /\ \E i \in 1..Len(logs) :
           /\ logs[i] = E_both_a
           /\ pattern_match(1, M_both_a).matched /\ pattern_match(3, M_both_a).matched
           /\ Len(RecordsOfEntry(i)) = 1
    /\ \E i \in 1..Len(logs) : Len(EventsOfEntry(i)) = 2

\* the classifiable entries, as events, in input order
RECURSIVE ClassifiableEvents(_)
ClassifiableEvents(entries) ==
    IF entries = <<>> THEN <<>>
    ELSE ClassifiableEvents(Front(entries)) \o event_of(Last(entries))

\* C10: without its RECONEXION RAPIDA elements the returned list is exactly
\* the classifiable entries (Hora, Cliente, Evento, Mensaje) in input order.
C10_OwnEventsInInputOrder ==
    pc = "classified" =>
        SelectSeq(connection_events, NotRapid) = ClassifiableEvents(logs)

C10_Witness ==
    /\ pc = "classified"
    /\ \E k \in 1..Len(connection_events) : IsRapid(connection_events[k])
    /\ Len(ClassifiableEvents(logs)) < Len(logs)
    /\ Len(ClassifiableEvents(logs)) >= 2

-----------------------------------------------------------------------------
(* Properties of the page: the active-session check, the CSV file and the  *)
(* polling pass.                                                           *)

\* the step taken is the active-session check of a run that pressed
\* "Ver clientes activos" (lines 392-423)
CheckRuns == pc = "ver" /\ button = "ver" /\ pc' = "poll"

\* the state right after that check
AfterCheck == pc = "poll" /\ button = "ver"

\* previous_disconnections as the check finds it (lines 388-389)
SetAtCheck == IF has_previous THEN previous_disconnections ELSE {}

\* C3: a check never reports a client that an earlier check has reported
\* unless the router has logged a disconnection of that client since.
C3_ReportedOncePerDisconnection ==
    [][CheckRuns => Range(reconnected_clients') \cap reported_since = {}]_vars

\* C4 as claimed: right after every active-session check the set is empty.
C4_SetEmptyAfterEveryCheck == AfterCheck => previous_disconnections = {}

\* C4 amended: a check that obtains a non-empty snapshot leaves the set
\* empty, whatever the set held and whether or not a client was reported; a
\* check that obtains no active client leaves the set as it was.
C4_SetEmptyAfterCheckWithSnapshot ==
    [][CheckRuns =>
          IF active_clients' # <<>>
          THEN previous_disconnections' = {}
          ELSE previous_disconnections' = SetAtCheck]_vars

C4_Witness ==
    /\ AfterCheck
    /\ active_clients # <<>>
    /\ reconnected_clients # <<>>
    /\ previous_disconnections = {}

\* C5: the clients a check reports are exactly the keys of the snapshot that
\* are in the set as the check finds it, each named once.
C5_ReportedIsIntersection ==
    [][CheckRuns =>
          /\ Range(reconnected_clients') = Range(active_clients') \cap SetAtCheck
          /\ Cardinality(Range(reconnected_clients')) = Len(reconnected_clients')]_vars

\* a check that reported one active client and not another
C5_Witness ==
    /\ AfterCheck
    /\ reconnected_clients # <<>>
    /\ Len(active_clients) > Len(reconnected_clients)

IsPrefixOf(s, t) == Len(s) <= Len(t) /\ SubSeq(t, 1, Len(s)) = s

\* the step taken is the history clearing (lines 432-436)
ClearsHistory ==
    /\ pc = "limpiar" /\ button = "limpiar"
    /\ log_file.exists
    /\ log_file' = [exists |-> FALSE, rows |-> <<>>]

\* C6 as claimed: every step, history clearing included, leaves the rows
\* written so far in place.
C6_RowsOnlyExtended == [][IsPrefixOf(log_file.rows, log_file'.rows)]_vars

\* C6 amended: every step but history clearing leaves the rows written so
\* far in place and only adds rows after them; history clearing deletes the
\* file with all its rows.
C6_RowsExtendedOrFileDeleted ==
    [][IsPrefixOf(log_file.rows, log_file'.rows) \/ ClearsHistory]_vars

\* two passes over one logged disconnection have each appended its row
C6_Witness ==
    /\ log_file.exists
    /\ Len(log_file.rows) = 3
    /\ Len(router_log) = 1

\* C7: no exception leaves find_recent_disconnections; raised is set only
\* when the open() of line 160 fails.
C7_AppendFailureStaysInside == raised = FALSE

\* the step taken is a pass of find_recent_disconnections that could not
\* read the router's log
PassWithoutRouter ==
    /\ (pc = "buscar" /\ button = "buscar") \/ pc = "poll"
    /\ pc' # pc
    /\ link' \in {"refused", "read_error"}

\* C8: a pass that cannot reach the router returns two empty lists, leaves
\* the file as it was, raises nothing and leaves the set as it was.
C8_UnreachableRouterChangesNothing ==
    [][PassWithoutRouter =>
          /\ disconnections' = <<>>
          /\ connection_events' = <<>>
          /\ log_file' = log_file
          /\ raised' = FALSE
          /\ previous_disconnections' = previous_disconnections
          /\ pc' \in {"ver", "limpiar"}]_vars

\* a polling pass failed to read a log that holds a disconnection of a
\* client the set does not hold
C8_Witness ==
    /\ pc = "limpiar"
    /\ link = "read_error"
    /\ filter_pppoe_disconnections(router_log) # <<>>
    /\ ~(RecordNames(filter_pppoe_disconnections(router_log)) \subseteq previous_disconnections)
    /\ ~log_file.exists

-----------------------------------------------------------------------------
(* Properties of a second call of the classification.                      *)

\* the index of the first CONEXION/DESCONEXION event of client c
FirstOwn(events, c) ==
    SetMin({i \in 1..Len(events) : events[i].Cliente = c /\ NotRapid(events[i])})

\* c's last event of the call before is a DESCONEXION and c's first event of
\* this call is a CONEXION
ReconnectsAcrossCalls(c) ==
    /\ c \in StatusClients(earlier.connection_events)
    /\ c \in StatusClients(connection_events)
    /\ LastOwnEvent(earlier.connection_events, c).Evento = DESCONEXION
    /\ connection_events[FirstOwn(connection_events, c)].Evento = CONEXION

\* C11: a second call on the identical entry list returns the two lists the
\* first call returned, and a client whose last event of the first call is a
\* DESCONEXION and whose first event of the second call is a CONEXION gets no
\* RECONEXION RAPIDA after that CONEXION.
C11_NoStateBetweenCalls ==
    pc = "classified_again" =>
        /\ logs = earlier.logs =>
               /\ disconnections = earlier.disconnections
               /\ connection_events = earlier.connection_events
        /\ \A c \in {NAME_a, NAME_b} :
               ReconnectsAcrossCalls(c) =>
                   \/ FirstOwn(connection_events, c) = Len(connection_events)
                   \/ NotRapid(connection_events[FirstOwn(connection_events, c) + 1])

\* the same list classified twice, ending with a DESCONEXION of a client and
\* starting with a CONEXION of it
C11_Witness ==
    /\ pc = "classified_again"
    /\ logs = earlier.logs
    /\ disconnections # <<>>
    /\ ReconnectsAcrossCalls(NAME_a)

-----------------------------------------------------------------------------
(* Properties of the CSV file's rows.                                      *)

\* the rows of the file after its header row
DataRows(file) == IF file.rows = <<>> THEN <<>> ELSE Tail(file.rows)

\* the step taken is a call of find_recent_disconnections (line 319 or line
\* 426) that read the router's log and returned
PassOverWindow ==
    /\ (pc = "buscar" /\ button = "buscar") \/ pc = "poll"
    /\ pc' # pc
    /\ link' = "up"
    /\ raised' = FALSE

\* the step taken is the call of line 426 in a run whose call of line 319
\* fetched the same entries
SecondPassOfRun ==
    /\ PassOverWindow
    /\ pc = "poll" /\ button = "buscar"
    /\ logs # <<>>
    /\ logs' = logs

TwoCopies(rows) == rows \o rows

\* C12: every pass that fetches a window holding k legacy disconnections
\* adds exactly their k rows after the rows the file holds, whether or not
\* the file holds them already; the two passes of a run that pressed "Buscar
\* desconexiones" leave the k rows twice at the end of the file.
C12_EveryPassAppendsItsRows ==
    [][/\ PassOverWindow =>
              /\ disconnections' = filter_pppoe_disconnections(logs')
              /\ DataRows(log_file') = DataRows(log_file) \o csv_rows(disconnections')
       /\ SecondPassOfRun =>
              /\ Len(DataRows(log_file')) >= 2 * Len(disconnections')
              /\ SubSeq(DataRows(log_file'),
                        Len(DataRows(log_file')) - 2 * Len(disconnections') + 1,
                        Len(DataRows(log_file')))
                     = TwoCopies(csv_rows(disconnections'))]_vars

\* a run that pressed "Buscar desconexiones" has made its two passes over one
\* logged disconnection and the file holds its row twice
C12_Witness ==
    /\ pc = "limpiar" /\ button = "buscar"
    /\ link = "up"
    /\ Len(disconnections) = 1
    /\ Len(router_log) = 1
    /\ DataRows(log_file) = TwoCopies(csv_rows(disconnections))

-----------------------------------------------------------------------------
(* Properties of the classification of single entries.                     *)

\* the entry has no time field or no message field
Malformed(log) == "time" \notin DOMAIN log \/ "message" \notin DOMAIN log

\* a list without its entry number i
Without(entries, i) == SubSeq(entries, 1, i - 1) \o SubSeq(entries, i + 1, Len(entries))

\* C13: an entry without a time field or without a message field adds
\* nothing to either list, and both lists are what the call returns for the
\* input without that entry.
C13_MalformedEntryIsSkipped ==
    pc = "classified" =>
        \A i \in 1..Len(logs) :
            Malformed(logs[i]) =>
                /\ RecordsOfEntry(i) = <<>>
                /\ EventsOfEntry(i) = <<>>
                /\ disconnections = filter_pppoe_disconnections(Without(logs, i))
                /\ connection_events = extract_pppoe_connection_events(Without(logs, i))

\* an entry without a time field stands between the DESCONEXION and the
\* CONEXION of a client, and the RECONEXION RAPIDA is emitted all the same
C13_Witness ==
    /\ pc = "classified"
    /\ Len(logs) = 3
    /\ logs[2] = E_no_time
    /\ Len(connection_events) = 3
    /\ IsRapid(connection_events[3])

\* the rows a legacy disconnection of the router's entries is written as
PossibleDataRows ==
    UNION {Range(csv_rows(records_of(e))) : e \in RouterEntries}

\* an existing file is one header row followed by data rows only; a file
\* that does not exist has no rows
HeaderThenData ==
    IF log_file.exists
    THEN /\ log_file.rows # <<>>
         /\ log_file.rows[1] = header_row
         /\ \A i \in 2..Len(log_file.rows) :
                log_file.rows[i] # header_row /\ log_file.rows[i] \in PossibleDataRows
    ELSE log_file.rows = <<>>

\* the step taken is a call of find_recent_disconnections with no legacy
\* disconnection to save, made while the file does not exist
EmptyAppendWithoutFile ==
    /\ (pc = "buscar" /\ button = "buscar") \/ pc = "poll"
    /\ pc' # pc
    /\ ~log_file.exists
    /\ disconnections' = <<>>

\* C14: whenever the file exists its first row is the header row and every
\* other row is a data row, after any appends and history clearings; a save
\* of an empty list does not create the file.
C14_OneHeaderThenDataRows ==
    /\ []HeaderThenData
    /\ [][EmptyAppendWithoutFile => ~log_file'.exists]_vars

\* two appends have written to the file: the first created it
C14_Witness ==
    /\ log_file.exists
    /\ Len(log_file.rows) = 3
    /\ log_file.rows[2] = log_file.rows[3]
    /\ Len(router_log) = 2
    /\ Len(filter_pppoe_disconnections(router_log)) = 1

\* the message holds '<pppoe-' and a '>' after it
HasClosedTag(message) ==
    \E i \in 1..Len(message) :
        /\ StartsAt(message, S_tag_open, i)
        /\ \E j \in (i + Len(S_tag_open))..Len(message) : message[j] = ">"

\* the kind C15 gives an entry that has both fields
ClaimedKind(message) ==
    IF ~str_in(S_tag_open, message) THEN "untagged"
    ELSE IF ~HasClosedTag(message) THEN "unclosed"
    ELSE IF str_in(S_terminating, message) \/ str_in(S_disconnected, message)
         THEN "disconnect"
    ELSE IF str_in(S_connected, message) THEN "connect"
    ELSE "none"
claimed_kind_table ==
    [log \in {e \in ClassifyEntries : ~Malformed(e)} |-> ClaimedKind(log.message)]

\* entry number i of logs adds one event of the given Evento, and possibly a
\* RECONEXION RAPIDA after it
AddsEventOfKind(i, evento) ==
    /\ EventsOfEntry(i) # <<>>
    /\ EventsOfEntry(i)[1].Evento = evento

\* entry number i of logs adds no event and the list is the one returned for
\* the input without it
AddsNothing(i) ==
    /\ EventsOfEntry(i) = <<>>
    /\ connection_events = extract_pppoe_connection_events(Without(logs, i))

\* C15: an entry with a closed <pppoe-NAME> tag is a DESCONEXION when its
\* message holds 'terminating' or 'disconnected', a CONEXION when it holds
\* 'connected' and neither of those, and otherwise adds nothing and leaves
\* client_status alone; an entry whose '<pppoe-' is never closed adds nothing.
C15_TagPathKind ==
    pc = "classified" =>
        \A i \in 1..Len(logs) :
            ~Malformed(logs[i]) =>
                /\ claimed_kind_table[logs[i]] = "disconnect" => AddsEventOfKind(i, DESCONEXION)
                /\ claimed_kind_table[logs[i]] = "connect" => AddsEventOfKind(i, CONEXION)
                /\ claimed_kind_table[logs[i]] \in {"none", "unclosed"} => AddsNothing(i)

\* a message holding both 'disconnected' and 'connected' is followed by an
\* entry of no kind or of unclosed tag and by a CONEXION of the same client
C15_Witness ==
    /\ pc = "classified"
    /\ Len(logs) = 3
    /\ logs[1] = E_disc_a
    /\ str_in(S_connected, M_disc_a)
    /\ logs[2] \in {E_auth_a, E_open_a}
    /\ logs[3] = E_conn_a
    /\ Len(connection_events) = 3

-----------------------------------------------------------------------------
(* Properties of the DisconnectionRecord list.                             *)

\* the patterns, by position, that match the message
MatchingPatterns(message) ==
    {k \in 1..Len(pppoe_patterns) : pattern_match(k, message).matched}

\* the name C16 gives the record of a relevant entry: the stripped capture
\* of the matching pattern of lowest position; no name when none matches
ClaimedName(log) ==
    IF Malformed(log) THEN <<>>
    ELSE IF ~is_pppoe_log(dict_get(log, "topics", <<>>), log.message) THEN <<>>
    ELSE IF MatchingPatterns(log.message) = {} THEN <<>>
    ELSE << [nombre |-> str_strip(pattern_match(SetMin(MatchingPatterns(log.message)),
                                                log.message).group1),
             mensaje |-> log.message] >>
claimed_name_table == [log \in ClassifyEntries |-> ClaimedName(log)]

RECURSIVE ClaimedNames(_)
ClaimedNames(entries) ==
    IF entries = <<>> THEN <<>>
    ELSE ClaimedNames(Front(entries)) \o claimed_name_table[Last(entries)]

NamesOf(records) ==
    [i \in 1..Len(records) |->
        [nombre |-> records[i].nombre, mensaje |-> records[i].mensaje]]

\* C16: the records are, in input order, one per relevant entry that some
\* pattern matches, named by the capture of the first pattern of the fixed
\* order that matches it; a relevant entry that no pattern matches has none.
C16_FirstPatternNamesTheRecord ==
    pc = "classified" => NamesOf(disconnections) = ClaimedNames(logs)

\* an entry matched by the first and the third pattern, named by the first,
\* with a relevant entry that no pattern matches and a second record
C16_Witness ==
    /\ pc = "classified"
    /\ Len(logs) = 3
    /\ logs[1] = E_link
    /\ is_pppoe_log(E_link.topics, M_link)
    /\ logs[2] = E_both_a
    /\ MatchingPatterns(M_both_a) = {1, 3}
    /\ Len(disconnections) = 2
    /\ disconnections[1].nombre = <<"u","s","e","r"," ","a">>
    /\ disconnections[2].nombre = NAME_b

-----------------------------------------------------------------------------
(* What the connection-event list depends on.                              *)

\* the list with the time field of entry i replaced by times[i]
RetimedLogs(entries, times) ==
    [i \in 1..Len(entries) |-> Retimed(entries[i], times[i])]

\* the (Cliente, Evento) pairs of a list of events
ClientKinds(events) == [i \in 1..Len(events) |-> <<events[i].Cliente, events[i].Evento>>]

\* C17: whatever time fields the entries carry, the call returns the same
\* sequence of (Cliente, Evento) pairs: where a RECONEXION RAPIDA stands does
\* not depend on any time.
C17_KindsIndependentOfTimes ==
    pc = "classified" =>
        \A times \in [1..Len(logs) -> {TIME_1, TIME_2}] :
            ClientKinds(extract_pppoe_connection_events(RetimedLogs(logs, times)))
                = ClientKinds(connection_events)

\* a RECONEXION RAPIDA whose CONEXION carries an earlier time than the
\* DESCONEXION before it
C17_Witness ==
    /\ pc = "classified"
    /\ \E k \in 3..Len(connection_events) :
           /\ IsRapid(connection_events[k])
           /\ connection_events[k].Hora = TIME_1
           /\ connection_events[k - 2].Evento = DESCONEXION
           /\ connection_events[k - 2].Cliente = connection_events[k].Cliente
           /\ connection_events[k - 2].Hora = TIME_2

\* the entries whose event is of client c, in input order
IsOfClient(log, c) == event_of(log) # <<>> /\ event_of(log)[1].Cliente = c
EntriesOfClient(entries, c) == SelectSeq(entries, LAMBDA log : IsOfClient(log, c))

\* the events of client c, in output order
EventsOfClient(events, c) == SelectSeq(events, LAMBDA e : e.Cliente = c)

\* C18: the events of client c in the returned list are exactly what the
\* call returns for c's entries alone, so entries of other clients, wherever
\* they stand, add, remove or move no RECONEXION RAPIDA of c.
C18_ClientEventsFromOwnEntries ==
    pc = "classified" =>
        \A c \in {NAME_a, NAME_b} :
            EventsOfClient(connection_events, c)
                = extract_pppoe_connection_events(EntriesOfClient(logs, c))

\* another client's event stands between the DESCONEXION and the CONEXION of
\* a client, and the RECONEXION RAPIDA is emitted
C18_Witness ==
    /\ pc = "classified"
    /\ Len(connection_events) = 4
    /\ IsRapid(connection_events[4])
    /\ connection_events[1].Cliente = connection_events[4].Cliente
    /\ connection_events[2].Cliente # connection_events[4].Cliente

-----------------------------------------------------------------------------
(* What changes previous_disconnections, and who may use the page.         *)

\* the step taken is the call of line 426 and the update of lines 427-429
PollRuns == pc = "poll" /\ pc' # pc

\* the entries the call of line 426 asks for
PollWindow ==
    Prefix(router_log,
           IF Len(router_log) < POLL_MINUTES * 10 THEN Len(router_log)
           ELSE POLL_MINUTES * 10)

\* the set changes only in a check, which empties it, or in the update after
\* the 15-minute pass, which adds the names of that pass's legacy records
OnlyCheckAndPollChangeSet ==
    previous_disconnections' # previous_disconnections =>
        \/ CheckRuns /\ previous_disconnections' = {}
        \/ /\ PollRuns
           /\ disconnections' = filter_pppoe_disconnections(PollWindow)
           /\ previous_disconnections' =
                  previous_disconnections \cup RecordNames(disconnections')

\* C19: only the check and the update after the 15-minute pass change the
\* set, the latter by the names of legacy records alone; the pass of "Buscar
\* desconexiones" leaves it as it is; and no client is reported as
\* reconnected unless a legacy record of the router's log names it.
C19_SetChangedByCheckAndPollOnly ==
    /\ [][OnlyCheckAndPollChangeSet]_vars
    /\ [][pc = "buscar" => previous_disconnections' = previous_disconnections]_vars
    /\ [](Range(reconnected_clients)
              \subseteq RecordNames(filter_pppoe_disconnections(router_log)))

\* a check found two clients active, one disconnected by a legacy record and
\* one by a <pppoe-NAME> entry logged before it, and reported the first only
C19_Witness ==
    /\ AfterCheck
    /\ router_log = <<E_term_a, E_pppoe_b>>
    /\ DisconnectNames(event_of(E_term_a)) = {NAME_a}
    /\ NAME_a \in Range(active_clients)
    /\ reconnected_clients = <<NAME_b>>

\* nothing of the page behind the login has run in this step: no connection
\* to the router, no list fetched or classified, no row written, no file
\* removed, no check made, the set not created or changed
NothingBehindTheGate ==
    /\ link' = "none"
    /\ logs' = <<>>
    /\ disconnections' = <<>>
    /\ connection_events' = <<>>
    /\ active_clients' = <<>>
    /\ reconnected_clients' = <<>>
    /\ raised' = FALSE
    /\ log_file' = log_file
    /\ has_previous' = has_previous
    /\ previous_disconnections' = previous_disconnections
    /\ pc' \in {"idle", "buscar"}
    /\ pc' = "buscar" => authenticated'

\* C20: a step that starts with the session not authenticated runs nothing
\* of the page behind the login; authenticated becomes true only with the
\* typed user and password both equal to the credentials; and it never
\* becomes false again.
C20_AuthenticationGate ==
    /\ [][~authenticated => NothingBehindTheGate]_vars
    /\ [][(~authenticated /\ authenticated') =>
              (input_user' = USERNAME /\ input_pass' = PASSWORD)]_vars
    /\ [][authenticated => authenticated']_vars

\* the right user with a wrong password has been typed while the router's
\* log holds a disconnection, and the session is still not authenticated
C20_Witness ==
    /\ ~authenticated
    /\ input_user = USERNAME
    /\ input_pass # PASSWORD
    /\ filter_pppoe_disconnections(router_log) # <<>>
    /\ ~log_file.exists
    /\ link = "none"

====
